---- MODULE Spec2Model ----
(***************************************************************************)
(* Model of the social-content collection pipeline of ai_agent_utilities:  *)
(*   - retry_operation            (twitter_scrape.py)                      *)
(*   - scrape_detailed_posts      (reddit_scrape.py), with get_comment_info*)
(*   - scrape_reddit              (reddit_scrape.py)                       *)
(*   - scrape_twitter             (twitter_scrape.py)                      *)
(* Each function is a small state machine over the shared variables; a     *)
(* specification per function starts it on inputs drawn from bounded sets. *)
(* SpecEntry starts scrape_reddit and scrape_detailed_posts at their first *)
(* statement (default fields, choice of the listing); the others start at  *)
(* the loop, with the arguments that act before it left at their defaults. *)
(***************************************************************************)
EXTENDS Integers, Sequences, FiniteSets, TLC

VARIABLES
    fn,           \* the function under execution
    max_retries,  \* retry_operation: parameter max_retries
    attempt,      \* retry_operation: loop variable of `for attempt in range(max_retries)`
    rpc,          \* retry_operation: control point
    events,       \* retry_operation: history of operation() invocations and time.sleep() calls
    ret,          \* retry_operation: what reaches the caller
    req,          \* the collector's arguments
    pc,           \* the collector's control point
    submissions,  \* the items the upstream listing has yielded so far, in order
    post_data,    \* the record under construction for the current item
    ci,           \* position in the loop over the current post's top-level comments
    posts,        \* the records collected so far (posts / detailed_posts / tweets)
    result,       \* what the collector returns or raises
    upstream,     \* the calls made on the praw subreddit, and a fetch of theirs that failed
    files,        \* the files written, in order: path and table
    conversation_history   \* ChatSession: the messages of the conversation, in order

retryVars == <<max_retries, attempt, rpc, events, ret>>
collectVars == <<req, pc, submissions, post_data, ci, posts, result, upstream, files>>
chatVars == <<conversation_history>>
vars == <<fn, retryVars, collectVars, chatVars>>

\* Python's None
None == "None"

(***************************************************************************)
(* retry_operation(operation, max_retries=3)                               *)
(***************************************************************************)

\* largest max_retries explored
MaxRetries == 4
\* default of the parameter max_retries
DefaultMaxRetries == 3
\* time.sleep(2)
RetryDelay == 2

\* values the wrapped operation may return
Values == {"v1", "v2"}
\* exception classes the wrapped operation may raise: one transient, one terminal
ErrorTypes == {"UpstreamUnavailable", "SubjectNotFound"}

\* the exception object raised by invocation number n
Exc(type, n) == [type |-> type, raisedBy |-> n]

CallEvents == {e \in DOMAIN events : events[e].ev = "call"}
SleepEvents == {e \in DOMAIN events : events[e].ev = "sleep"}
NumCalls == Cardinality(CallEvents)
NumSleeps == Cardinality(SleepEvents)

\* mutant: the operation is tried at least once
RetryFor_AtLeastOnce ==
    /\ rpc = "for"
    /\ IF attempt < max_retries \/ attempt = 0
         THEN rpc' = "try" /\ UNCHANGED ret
         ELSE rpc' = "returned" /\ ret' = [kind |-> "value", val |-> None]
    /\ UNCHANGED <<fn, max_retries, attempt, events, collectVars, chatVars>>

\* `for attempt in range(max_retries)`: next iteration, or fall off the loop (return None)
RetryFor ==
    /\ rpc = "for"
    /\ IF attempt < max_retries
         THEN rpc' = "try" /\ UNCHANGED ret
         ELSE rpc' = "returned" /\ ret' = [kind |-> "value", val |-> None]
    /\ UNCHANGED <<fn, max_retries, attempt, events, collectVars, chatVars>>

\* `return operation()`: the operation returns v
OperationReturns(v) ==
    /\ rpc = "try"
    /\ events' = Append(events, [ev |-> "call", ok |-> TRUE, out |-> v])
    /\ ret' = [kind |-> "value", val |-> v]
    /\ rpc' = "returned"
    /\ UNCHANGED <<fn, max_retries, attempt, collectVars, chatVars>>

\* mutant: give up after the first failure
ExceptBranch_NoRetry(e) ==
    rpc' = "raised" /\ ret' = [kind |-> "error", val |-> e]

\* mutant: `attempt < max_retries` instead of `attempt < max_retries - 1`
ExceptBranch_OffByOne(e) ==
    IF attempt < max_retries
      THEN rpc' = "sleep" /\ UNCHANGED ret
      ELSE rpc' = "raised" /\ ret' = [kind |-> "error", val |-> e]

\* the `except Exception as e` branch taken after a failed attempt
ExceptBranch(e) ==
    IF attempt < max_retries - 1
      THEN rpc' = "sleep" /\ UNCHANGED ret
      ELSE rpc' = "raised" /\ ret' = [kind |-> "error", val |-> e]

\* operation() raises an exception of class t
OperationRaises(t) ==
    /\ rpc = "try"
    /\ LET e == Exc(t, NumCalls + 1) IN
         /\ events' = Append(events, [ev |-> "call", ok |-> FALSE, out |-> e])
         /\ ExceptBranch(e)
    /\ UNCHANGED <<fn, max_retries, attempt, collectVars, chatVars>>

\* mutant: linear backoff, time.sleep(2 * (attempt + 1))
RetrySleep_Backoff ==
    /\ rpc = "sleep"
    /\ events' = Append(events, [ev |-> "sleep", ok |-> TRUE, out |-> RetryDelay * (attempt + 1)])
    /\ attempt' = attempt + 1
    /\ rpc' = "for"
    /\ UNCHANGED <<fn, max_retries, ret, collectVars, chatVars>>

\* `time.sleep(2)`, then the loop continues with the next attempt
RetrySleep ==
    /\ rpc = "sleep"
    /\ events' = Append(events, [ev |-> "sleep", ok |-> TRUE, out |-> RetryDelay])
    /\ attempt' = attempt + 1
    /\ rpc' = "for"
    /\ UNCHANGED <<fn, max_retries, ret, collectVars, chatVars>>

\* no collector is running
CollectIdle ==
    /\ req = None
    /\ pc = "idle"
    /\ submissions = <<>>
    /\ post_data = None
    /\ ci = 0
    /\ posts = <<>>
    /\ result = [kind |-> "none", val |-> None]
    /\ upstream = <<>>
    /\ files = <<>>
    /\ conversation_history = <<>>

InitRetry ==
    /\ fn = "retry_operation"
    /\ max_retries \in ((-1) .. MaxRetries) \cup {DefaultMaxRetries}
    /\ attempt = 0
    /\ rpc = "for"
    /\ events = <<>>
    /\ ret = [kind |-> "none", val |-> None]
    /\ CollectIdle

NextRetry ==
    \/ RetryFor
    \/ \E v \in Values : OperationReturns(v)
    \/ \E t \in ErrorTypes : OperationRaises(t)
    \/ RetrySleep

SpecRetry == InitRetry /\ [][NextRetry]_vars

RetryDone == rpc \in {"returned", "raised"}
AllCallsFailed == \A i \in CallEvents : ~events[i].ok
LastEvent == events[Len(events)]

\* C1: if the operation raises on its first N-1 invocations and returns a value on
\* the N-th (1 <= N <= max_retries), it is invoked exactly N times and
\* retry_operation returns exactly that value: a successful invocation is the last
\* thing that happens and its value is what is returned, and after fewer than
\* max_retries failures the controller has not given up.
C1_SucceedsOnNthAttempt ==
    /\ \A i \in CallEvents :
          events[i].ok =>
            /\ i = Len(events)
            /\ \A j \in CallEvents : j < i => ~events[j].ok
            /\ NumCalls <= max_retries
            /\ rpc = "returned"
            /\ ret = [kind |-> "value", val |-> events[i].out]
    /\ (AllCallsFailed /\ NumCalls < max_retries) => ~RetryDone

\* C1 witness: two failures, then the third invocation returns v2, which is returned
C1_Witness ==
    /\ rpc = "returned"
    /\ NumCalls = 3
    /\ ~AllCallsFailed
    /\ ret = [kind |-> "value", val |-> "v2"]

\* C2: if the operation raises on every invocation (max_retries >= 1), it is invoked
\* exactly max_retries times and the caller gets the exception object raised by the
\* last invocation, itself, not an earlier one and not a wrapper.
C2_AlwaysFailsRaisesLast ==
    /\ rpc = "raised" =>
          /\ AllCallsFailed
          /\ NumCalls = max_retries
          /\ LastEvent.ev = "call"
          /\ ret = [kind |-> "error", val |-> LastEvent.out]
          /\ ret.val.raisedBy = max_retries
    /\ (RetryDone /\ AllCallsFailed /\ max_retries >= 1) => rpc = "raised"

\* C2 witness: the default three attempts all fail, the first two with another
\* exception class than the last; the last one reaches the caller
C2_Witness ==
    /\ rpc = "raised"
    /\ max_retries = 3
    /\ NumCalls = 3
    /\ events[1].out.type = "UpstreamUnavailable"
    /\ ret.val = Exc("SubjectNotFound", 3)

\* C3: every delay is the same 2 seconds, comes right after a failed attempt and is
\* followed by another attempt; once the controller is done after at least one
\* attempt, the number of delays is the number of attempts minus one, and the last
\* thing that happened is an attempt, not a delay.
C3_FixedDelayBetweenAttempts ==
    /\ \A i \in SleepEvents :
          /\ events[i].out = 2
          /\ i > 1
          /\ events[i - 1].ev = "call"
          /\ ~events[i - 1].ok
          /\ i < Len(events) => events[i + 1].ev = "call"
          /\ i = Len(events) => (~RetryDone /\ attempt < max_retries)
    /\ (RetryDone /\ NumCalls >= 1) =>
          /\ NumSleeps = NumCalls - 1
          /\ LastEvent.ev = "call"

\* C3 witness: a run of four attempts and three delays that ends in success
C3_Witness ==
    /\ rpc = "returned"
    /\ NumCalls = 4
    /\ NumSleeps = 3
    /\ LastEvent.ok

(***************************************************************************)
(* The upstream (the praw objects): submissions and their comment forests  *)
(***************************************************************************)

\* most submissions a listing yields
MaxPosts == 2
\* most comments, over all submissions of one run, the upstream holds
MaxNodes == 3
\* the same for a run of scrape_reddit, which reads top-level comments only
MaxComments == 2

\* an author attribute as the upstream gives it: an object with a name, or None
HasAuthor(n) == [present |-> TRUE, name |-> n]
NoAuthor == [present |-> FALSE, name |-> None]

\* mutant: no sentinel, the name of an absent author is None
AuthorName_NoSentinel(a) == a.name

\* `x.author.name if x.author else '[deleted]'`
AuthorName(a) == IF a.present THEN a.name ELSE "[deleted]"

\* f"https://www.reddit.com{x.permalink}": strings are sequences of parts
AbsolutePermalink(rel) == <<"https://www.reddit.com">> \o rel

\* A comment is named by its path in the forest: <<2, 1>> is the first reply to the
\* second top-level comment. A forest shape is a set of paths closed under parent
\* and under earlier sibling.
Parent(p) == SubSeq(p, 1, Len(p) - 1)
Depth(p) == Len(p) - 1

Addable(s, n) ==
    {p \in {<<k>> : k \in 1 .. n} \cup {q \o <<k>> : q \in s, k \in 1 .. n} :
        /\ p \notin s
        /\ \/ p[Len(p)] = 1
           \/ [p EXCEPT ![Len(p)] = @ - 1] \in s}

RECURSIVE Shapes(_)
Shapes(n) ==
    IF n <= 0 THEN {{}}
    ELSE LET S == Shapes(n - 1)
         IN  S \cup UNION {{s \cup {p} : p \in Addable(s, n)} : s \in S}

\* what the upstream may hold at a node: a comment by a known author, a comment whose
\* author is gone, or an object whose attribute access raises
CommentObjs ==
    { [author |-> HasAuthor("bob"), broken |-> FALSE],
      [author |-> NoAuthor, broken |-> FALSE],
      [author |-> HasAuthor("bob"), broken |-> TRUE] }

\* the forests of at most n comments
Forests(n) == UNION {[s -> CommentObjs] : s \in Shapes(n)}

\* comment.replies (p = <<>>: submission.comments), in upstream order
Replies(f, p) ==
    LET n == Cardinality({q \in DOMAIN f : Len(q) = Len(p) + 1 /\ Parent(q) = p})
    IN  [k \in 1 .. n |-> p \o <<k>>]

\* comments the upstream still has room for
NodesUsed ==
    Cardinality(UNION {{<<i, q>> : q \in DOMAIN submissions[i].comments.forest} :
                          i \in DOMAIN submissions})
NodesLeft == MaxNodes - NodesUsed
CommentsLeft == MaxComments - NodesUsed

\* the submission the loop is at
Cur == Len(submissions)
CurForest == submissions[Cur].comments.forest

(***************************************************************************)
(* "Get submissions based on sort and search criteria": the same block in  *)
(* scrape_reddit and in scrape_detailed_posts                              *)
(***************************************************************************)

\* the values of sort_by the block has a branch for
SortStrategies == {"new", "hot", "top", "rising", "controversial"}
\* the values of sort_by explored: those, and one the block has no branch for
SortValues == SortStrategies \cup {"best"}
\* defaults of the parameters sort_by and time_filter
DefaultSortBy == "hot"
DefaultTimeFilter == "all"
TimeFilters == {"all", "week"}
\* the values of search_query explored: None, the empty string and a query
SearchQueries == {None, "", "gme"}
\* default of the parameter limit of scrape_detailed_posts
DefaultDetailedLimit == 5

\* marks a keyword argument the call does not pass
NotPassed == "<not passed>"

\* `if search_query:` (None and '' are false)
QueryGiven(search_query) == search_query # None /\ search_query # ""

\* subreddit.search(search_query, sort=sort_by, time_filter=time_filter, limit=limit)
SearchCall(search_query, sort_by, time_filter, limit) ==
    [prim |-> "search", query |-> search_query, sort |-> sort_by,
     time_filter |-> time_filter, limit |-> limit]

\* subreddit.new / hot / rising (limit=limit), subreddit.top / controversial
\* (time_filter=time_filter, limit=limit)
ListingCall(prim, time_filter, limit) ==
    [prim |-> prim, query |-> NotPassed, sort |-> NotPassed,
     time_filter |-> time_filter, limit |-> limit]

\* mutant: the time filter is handed to every listing
Dispatch_TimeFilterToAll(search_query, sort_by, time_filter, limit) ==
    IF QueryGiven(search_query)
      THEN [kind |-> "call", val |-> SearchCall(search_query, sort_by, time_filter, limit)]
    ELSE IF sort_by \in SortStrategies
      THEN [kind |-> "call", val |-> ListingCall(sort_by, time_filter, limit)]
    ELSE [kind |-> "error", val |-> [type |-> "ValueError", sort_by |-> sort_by]]

\* the if / elif chain: the call it makes, or `raise ValueError(...)`
Dispatch(search_query, sort_by, time_filter, limit) ==
    IF QueryGiven(search_query)
      THEN [kind |-> "call", val |-> SearchCall(search_query, sort_by, time_filter, limit)]
    ELSE IF sort_by = "new"
      THEN [kind |-> "call", val |-> ListingCall("new", NotPassed, limit)]
    ELSE IF sort_by = "hot"
      THEN [kind |-> "call", val |-> ListingCall("hot", NotPassed, limit)]
    ELSE IF sort_by = "top"
      THEN [kind |-> "call", val |-> ListingCall("top", time_filter, limit)]
    ELSE IF sort_by = "rising"
      THEN [kind |-> "call", val |-> ListingCall("rising", NotPassed, limit)]
    ELSE IF sort_by = "controversial"
      THEN [kind |-> "call", val |-> ListingCall("controversial", time_filter, limit)]
    ELSE [kind |-> "error", val |-> [type |-> "ValueError", sort_by |-> sort_by]]

\* the block as a step of the function fn_name
DispatchStep(fn_name) ==
    /\ fn = fn_name
    /\ pc = "dispatch"
    /\ LET d == Dispatch(req.search_query, req.sort_by, req.time_filter, req.limit) IN
         IF d.kind = "error"
           THEN /\ pc' = "raised"
                /\ result' = [kind |-> "error", val |-> d.val]
                /\ UNCHANGED upstream
           ELSE /\ pc' = "iter"
                /\ upstream' = Append(upstream, d.val)
                /\ UNCHANGED result
    /\ UNCHANGED <<fn, retryVars, chatVars, files, req, submissions, post_data, ci, posts>>

\* the calls made before the loop when sort_by, time_filter and search_query are
\* left at their defaults
DefaultCalls(limit) == <<Dispatch(None, DefaultSortBy, DefaultTimeFilter, limit).val>>

\* the exception classes a fetch is made to raise: the transient one (no handler in
\* reddit_scrape.py tells the classes apart)
FetchErrors == {"UpstreamUnavailable"}

\* a fetch behind the listing or behind replace_more raises an exception of class t:
\* nothing in reddit_scrape.py catches it
FetchFails(fn_name, t) ==
    /\ fn = fn_name
    /\ pc \in {"iter", "expand"}
    /\ upstream' = Append(upstream, [prim |-> "fetch", at |-> pc, ok |-> FALSE])
    /\ pc' = "raised"
    /\ result' = [kind |-> "error", val |-> [type |-> t]]
    /\ UNCHANGED <<fn, retryVars, chatVars, files, req, submissions, post_data, ci, posts>>

(***************************************************************************)
(* scrape_detailed_posts(..., comment_depth=3, ...)                        *)
(***************************************************************************)

\* default of the parameter comment_depth
DefaultCommentDepth == 3

CommentDepths == ((-1) .. (MaxNodes - 1)) \cup {DefaultCommentDepth}

\* results of get_comment_info: a comment_data dict, None, or an exception
PrunedResult == [tag |-> "none"]
RaiseResult(p) == [tag |-> "raise", id |-> p]

\* mutant: one level too many is kept
BeyondDepth_OffByOne(depth, comment_depth) == depth > comment_depth + 1

\* `if depth > comment_depth: return None`
BeyondDepth(depth, comment_depth) == depth > comment_depth

\* `if reply_data:` (a comment_data dict has keys, so it is true; None is not)
Truthy(r) == r.tag = "comment"

\* mutant: the first reply is lost
KeptReplies_DropFirst(rs) ==
    LET s == SelectSeq(rs, Truthy) IN IF s = <<>> THEN s ELSE Tail(s)

\* the replies the loop `for reply in comment.replies` appends
KeptReplies(rs) == SelectSeq(rs, Truthy)

RECURSIVE get_comment_info(_, _, _, _)
get_comment_info(f, p, depth, comment_depth) ==
    IF BeyondDepth(depth, comment_depth) THEN PrunedResult
    ELSE IF f[p].broken THEN RaiseResult(p)
    ELSE LET kids == Replies(f, p)
             rs == [k \in DOMAIN kids |->
                       get_comment_info(f, kids[k], depth + 1, comment_depth)]
             raised == {k \in DOMAIN rs : rs[k].tag = "raise"}
         IN  IF raised # {}
               THEN rs[CHOOSE k \in raised : \A j \in raised : k <= j]
               ELSE [tag |-> "comment",
                     id |-> p,
                     author |-> AuthorName(f[p].author),
                     permalink |-> AbsolutePermalink(<<"/comment/">> \o p),
                     replies |-> KeptReplies(rs)]

\* mutant: the new record is put in front
AppendRecord_InFront(ps, d) == <<d>> \o ps

\* `posts.append(post_data)` / `detailed_posts.append(post_data)` / `tweets.append(tweet_data)`
AppendRecord(ps, d) == Append(ps, d)

\* mutant: the traversal starts without the expansion
DetNextSubmission_NoExpand(a) ==
    /\ fn = "scrape_detailed_posts"
    /\ pc = "iter"
    /\ Len(submissions) < MaxPosts
    /\ LET id == Len(submissions) + 1 IN
         /\ submissions' = Append(submissions,
                [id |-> id, author |-> a, score |-> 1, over_18 |-> FALSE,
                 comments |-> [fetched |-> FALSE, forest |-> <<>>]])
         /\ post_data' = [id |-> id, score |-> 1, over_18 |-> FALSE,
                          author |-> AuthorName(a),
                          permalink |-> AbsolutePermalink(<<"/post/", id>>),
                          comments |-> <<>>]
    /\ pc' = "comments"
    /\ ci' = 1
    /\ UNCHANGED <<fn, retryVars, chatVars, upstream, files, req, posts, result>>

\* `for submission in submissions`: the listing yields one more submission; post_data
\* gets its attributes, the author by the sentinel rule and the permalink made absolute
DetNextSubmission(a) ==
    /\ fn = "scrape_detailed_posts"
    /\ pc = "iter"
    /\ Len(submissions) < MaxPosts
    /\ LET id == Len(submissions) + 1 IN
         /\ submissions' = Append(submissions,
                [id |-> id, author |-> a, score |-> 1, over_18 |-> FALSE,
                 comments |-> [fetched |-> FALSE, forest |-> <<>>]])
         /\ post_data' = [id |-> id, score |-> 1, over_18 |-> FALSE,
                          author |-> AuthorName(a),
                          permalink |-> AbsolutePermalink(<<"/post/", id>>),
                          comments |-> <<>>]
    /\ pc' = "expand"
    /\ UNCHANGED <<fn, retryVars, chatVars, upstream, files, req, ci, posts, result>>

\* `submission.comments.replace_more(limit=None)`: the whole forest is fetched
DetReplaceMore ==
    /\ fn = "scrape_detailed_posts"
    /\ pc = "expand"
    /\ \E f \in Forests(NodesLeft) :
          submissions' = [submissions EXCEPT ![Cur].comments = [fetched |-> TRUE, forest |-> f]]
    /\ ci' = 1
    /\ pc' = "comments"
    /\ UNCHANGED <<fn, retryVars, chatVars, upstream, files, req, post_data, posts, result>>

\* one iteration of `for comment in submission.comments`
DetTopComment ==
    /\ fn = "scrape_detailed_posts"
    /\ pc = "comments"
    /\ ci <= Len(Replies(CurForest, <<>>))
    /\ LET r == get_comment_info(CurForest, <<ci>>, 0, req.comment_depth) IN
         CASE r.tag = "raise" ->
                /\ pc' = "raised"
                /\ result' = [kind |-> "error", val |-> [type |-> "CommentError", post |-> Cur, id |-> r.id]]
                /\ UNCHANGED <<post_data, ci>>
           [] r.tag = "none" ->
                /\ ci' = ci + 1
                /\ UNCHANGED <<pc, result, post_data>>
           [] r.tag = "comment" ->
                /\ post_data' = [post_data EXCEPT !.comments = Append(@, r)]
                /\ ci' = ci + 1
                /\ UNCHANGED <<pc, result>>
    /\ UNCHANGED <<fn, retryVars, chatVars, upstream, files, req, submissions, posts>>

\* `detailed_posts.append(post_data)`
DetAppendPost ==
    /\ fn = "scrape_detailed_posts"
    /\ pc = "comments"
    /\ ci > Len(Replies(CurForest, <<>>))
    /\ posts' = AppendRecord(posts, post_data)
    /\ pc' = "iter"
    /\ UNCHANGED <<fn, retryVars, chatVars, upstream, files, req, submissions, post_data, ci, result>>

\* the listing is exhausted: `return detailed_posts`
DetReturn ==
    /\ fn = "scrape_detailed_posts"
    /\ pc = "iter"
    /\ result' = [kind |-> "value", val |-> [kind |-> "list", rows |-> posts]]
    /\ pc' = "returned"
    /\ UNCHANGED <<fn, retryVars, chatVars, upstream, files, req, submissions, post_data, ci, posts>>

\* "Get submissions based on sort and search criteria" in scrape_detailed_posts
DetDispatch == DispatchStep("scrape_detailed_posts")

\* the listing, or `submission.comments.replace_more(limit=None)`, raises
DetFetchFails(t) == FetchFails("scrape_detailed_posts", t)

\* retry_operation is not running
RetryIdle ==
    /\ max_retries = 0
    /\ attempt = 0
    /\ rpc = "idle"
    /\ events = <<>>
    /\ ret = [kind |-> "none", val |-> None]

InitDetailed ==
    /\ fn = "scrape_detailed_posts"
    /\ RetryIdle
    /\ req \in [comment_depth : CommentDepths]
    /\ pc = "iter"
    /\ submissions = <<>>
    /\ post_data = [id |-> 0]
    /\ ci = 0
    /\ posts = <<>>
    /\ result = [kind |-> "none", val |-> None]
    /\ upstream = DefaultCalls(DefaultDetailedLimit)
    /\ files = <<>>
    /\ conversation_history = <<>>

NextDetailed ==
    \/ \E a \in {NoAuthor, HasAuthor("alice")} : DetNextSubmission(a)
    \/ DetReplaceMore
    \/ DetTopComment
    \/ DetAppendPost
    \/ DetReturn
    \/ \E t \in FetchErrors : DetFetchFails(t)

SpecDetailed == InitDetailed /\ [][NextDetailed]_vars

\* the collector has returned its result
Returned == pc = "returned"

\* every node of the comment list cs, nested `depth` levels deep, is a comment whose
\* nesting depth is at most cd, and so on below it
RECURSIVE NestingWithin(_, _, _)
NestingWithin(cs, depth, cd) ==
    \A k \in DOMAIN cs :
        /\ cs[k].tag = "comment"
        /\ depth <= cd
        /\ NestingWithin(cs[k].replies, depth + 1, cd)

\* C4: in every comment tree built by get_comment_info, for every upstream forest and
\* every comment_depth, no node is nested deeper than comment_depth (top-level
\* comments are depth 0) and every entry of a replies list is a comment, never a
\* None or empty placeholder.
C4_NoNodeBeyondDepth ==
    fn = "scrape_detailed_posts" =>
        /\ \A i \in DOMAIN posts : NestingWithin(posts[i].comments, 0, req.comment_depth)
        /\ pc \in {"expand", "comments"} =>
              NestingWithin(post_data.comments, 0, req.comment_depth)
        /\ Returned => \A i \in DOMAIN result.val.rows :
              NestingWithin(result.val.rows[i].comments, 0, req.comment_depth)

\* C4 witness: a run with comment_depth = 0 has returned a post whose upstream forest
\* has a reply (depth 1); the returned top-level comment has no replies entry
C4_Witness ==
    /\ fn = "scrape_detailed_posts"
    /\ Returned
    /\ req.comment_depth = 0
    /\ \E i \in DOMAIN result.val.rows :
          /\ <<1, 1>> \in DOMAIN submissions[i].comments.forest
          /\ Len(result.val.rows[i].comments) >= 1
          /\ result.val.rows[i].comments[1].replies = <<>>

\* the nodes of a returned comment list, each with its parent and its position among
\* its siblings, read off the nesting of the result
RECURSIVE Flat(_, _)
Flat(cs, parent) ==
    UNION {{[id |-> cs[k].id, parent |-> parent, pos |-> k]} \cup Flat(cs[k].replies, cs[k].id) :
              k \in DOMAIN cs}

\* the upstream forest f cut at depth cd, in the same form
Restricted(f, cd) ==
    {[id |-> p, parent |-> Parent(p), pos |-> p[Len(p)]] : p \in {q \in DOMAIN f : Depth(q) <= cd}}

\* C5: the returned forest of every post is exactly the upstream forest restricted to
\* the nodes of depth <= comment_depth: each such node is there, under its upstream
\* parent and at its upstream position among its siblings, and nothing else is.
C5_ForestIsUpstreamCutAtDepth ==
    (fn = "scrape_detailed_posts" /\ Returned) =>
        /\ Len(result.val.rows) = Len(submissions)
        /\ \A i \in DOMAIN result.val.rows :
              Flat(result.val.rows[i].comments, <<>>) =
                  Restricted(submissions[i].comments.forest, req.comment_depth)

\* C5 witness: comment_depth = 1 on a chain of three nested comments (depths 0, 1, 2):
\* the result has the depth-0 and the depth-1 comment and not the depth-2 one
C5_Witness ==
    /\ fn = "scrape_detailed_posts"
    /\ Returned
    /\ req.comment_depth = 1
    /\ Len(result.val.rows) >= 1
    /\ DOMAIN submissions[1].comments.forest = {<<1>>, <<1, 1>>, <<1, 1, 1>>}
    /\ Len(result.val.rows[1].comments) = 1
    /\ Len(result.val.rows[1].comments[1].replies) = 1
    /\ result.val.rows[1].comments[1].replies[1].replies = <<>>

\* a comment within the depth limit whose attribute access raises has been fetched
BrokenCommentInReach ==
    \E i \in DOMAIN submissions : \E p \in DOMAIN submissions[i].comments.forest :
        /\ submissions[i].comments.forest[p].broken
        /\ Depth(p) <= req.comment_depth

\* C6: an error while processing one comment subtree omits that subtree only: the run
\* is never ended by it, it still returns.
C6_SubtreeErrorDoesNotAbort ==
    fn = "scrape_detailed_posts" =>
        ~(pc = "raised" /\ result.val.type = "CommentError")

(***************************************************************************)
(* scrape_reddit(subreddit_name, limit=100, ..., include_comments=False,   *)
(*               comment_limit=0, min_score=0, exclude_nsfw=True,          *)
(*               include_fields=None, ..., return_type='dataframe')         *)
(***************************************************************************)

\* default of the parameter limit
DefaultLimit == 100

\* `if include_fields is None: include_fields = [...]`
DefaultFields ==
    <<"id", "title", "score", "url", "author", "created_utc", "num_comments", "selftext">>

\* the field selections explored: the default, one with id, author and permalink, and
\* one without id and author that names an attribute no submission has
FieldSelections ==
    {DefaultFields, <<"id", "author", "permalink">>, <<"title", "flair">>}

\* the data attributes a praw submission has (besides author and comments)
SubmissionAttrs ==
    {"id", "title", "score", "url", "created_utc", "num_comments", "selftext",
     "permalink", "over_18"}

\* scores an upstream submission may have: below and at the threshold min_score = 10
Scores == {5, 10}
MinScores == {0, 10}

\* mutant: the comment limit is not looked at
CommentsOn_IgnoresLimit(r) == r.include_comments

\* `include_comments and comment_limit > 0`
CommentsOn(r) == r.include_comments /\ r.comment_limit > 0

\* the values of the argument return_type ('dataframe' is also any other string)
ReturnTypes == {"dataframe", "dict", "json"}

\* the argument output_file when no file is asked for: None, or the empty string,
\* which `if output_file` treats alike; a path is the sequence of its characters
NoOutputFile == <<>>

\* The arguments explored. The filter arguments and the limit act on the loop only
\* through `continue`, so they are combined in full with the runs that fetch no
\* comments, and runs that fetch comments keep them at their defaults and select
\* the default fields or fields without 'id'. return_type
\* is first read after the loop and is drawn there (RedReturn).
RedditRequests ==
    {r \in [limit : {1, DefaultLimit},
            exclude_nsfw : BOOLEAN,
            min_score : MinScores,
            include_fields : FieldSelections,
            include_comments : BOOLEAN,
            comment_limit : {0, 1, MaxComments},
            output_file : {NoOutputFile}] :
        CommentsOn(r) => /\ r.limit = DefaultLimit /\ r.exclude_nsfw /\ r.min_score = 0
                         /\ r.include_fields \in {DefaultFields, <<"title", "flair">>}}

\* the submissions a listing may yield next: one by alice with score 10 and not
\* marked over_18, and those that differ from it in one attribute
Submissions(id) ==
    {p \in [id : {id}, author : {NoAuthor, HasAuthor("alice")}, score : Scores,
            over_18 : BOOLEAN, comments : {[fetched |-> FALSE, forest |-> <<>>]}] :
        /\ p.over_18 => (p.author = HasAuthor("alice") /\ p.score = 10)
        /\ p.author = NoAuthor => p.score = 10}

\* the forests scrape_reddit may find: it reads top-level comments only, so what a
\* reply holds is left fixed
TopLevelForests(n) ==
    UNION {{g \in [s -> {o \in CommentObjs : ~o.broken}] :
                \A q \in s : Len(q) > 1 => g[q].author = HasAuthor("bob")} :
             s \in Shapes(n)}

\* datetime.fromtimestamp(timestamp).strftime('%Y-%m-%d %H:%M:%S')
FormatDate(timestamp) == <<"%Y-%m-%d %H:%M:%S">> \o timestamp

\* getattr(post, field): the attribute, or AttributeError
HasAttr(field) == field \in SubmissionAttrs
GetAttr(post, field) ==
    CASE field = "id" -> post.id
      [] field = "score" -> post.score
      [] field = "over_18" -> post.over_18
      [] field = "permalink" -> <<"/post/", post.id>>
      [] OTHER -> <<field, post.id>>

\* mutant: a field the submission does not have gets no key
ProjectedKeys_KnownOnly(fields) ==
    {fields[k] : k \in {j \in DOMAIN fields : fields[j] = "author" \/ HasAttr(fields[j])}} \cup
        (IF \E k \in DOMAIN fields : fields[k] = "created_utc" THEN {"created_date"} ELSE {})

\* the keys of post_data after `for field in include_fields`
ProjectedKeys(fields) ==
    {fields[k] : k \in DOMAIN fields} \cup
        (IF \E k \in DOMAIN fields : fields[k] = "created_utc" THEN {"created_date"} ELSE {})

\* the value the loop over include_fields stores under key
ProjectedValue(post, key) ==
    CASE key = "author" -> AuthorName(post.author)
      [] key = "created_date" -> FormatDate(GetAttr(post, "created_utc"))
      [] OTHER -> IF HasAttr(key) THEN GetAttr(post, key) ELSE None

\* post_data after `for field in include_fields`
Project(post, fields) ==
    [key \in ProjectedKeys(fields) |-> ProjectedValue(post, key)]

\* mutant: `post.score <= min_score`
Skipped_Strict(post, r) ==
    \/ r.exclude_nsfw /\ post.over_18
    \/ post.score <= r.min_score

\* `if exclude_nsfw and post.over_18: continue` / `if post.score < min_score: continue`
Skipped(post, r) ==
    \/ r.exclude_nsfw /\ post.over_18
    \/ post.score < r.min_score

\* a dict with one more key
WithKey(d, key, value) ==
    [k \in DOMAIN d \cup {key} |-> IF k = key THEN value ELSE d[k]]
\* a dict without a key
WithoutKey(d, key) == [k \in DOMAIN d \ {key} |-> d[k]]

\* the dict built for one comment of `list(post.comments)[:comment_limit]`
CommentEntry(f, p) ==
    [id |-> p, author |-> AuthorName(f[p].author), body |-> <<"body">> \o p]

\* mutant: the slice is not taken
FirstComments_IgnoresLimit(f, comment_limit) ==
    LET top == Replies(f, <<>>)
    IN  [k \in 1 .. Len(top) |-> CommentEntry(f, top[k])]

\* `list(post.comments)[:comment_limit]`
FirstComments(f, comment_limit) ==
    LET top == Replies(f, <<>>)
        n == IF Len(top) < comment_limit THEN Len(top) ELSE comment_limit
    IN  [k \in 1 .. n |-> CommentEntry(f, top[k])]

\* `for post in submissions`: the listing yields one more submission, which is
\* skipped, or projected and (when no comments are wanted) appended
RedNextSubmission(post) ==
    /\ fn = "scrape_reddit"
    /\ pc = "iter"
    /\ Len(submissions) < MaxPosts
    /\ submissions' = Append(submissions, post)
    /\ IF Skipped(post, req)
         THEN UNCHANGED <<pc, post_data, posts>>
         ELSE IF CommentsOn(req)
           THEN /\ post_data' = Project(post, req.include_fields)
                /\ pc' = "expand"
                /\ UNCHANGED posts
           ELSE /\ posts' = AppendRecord(posts, Project(post, req.include_fields))
                /\ UNCHANGED <<pc, post_data>>
    /\ UNCHANGED <<fn, retryVars, chatVars, upstream, files, req, ci, result>>

\* `post.comments.replace_more(limit=0)`, the first comment_limit top-level comments
\* are stored under 'comments', and `posts.append(post_data)`
RedComments ==
    /\ fn = "scrape_reddit"
    /\ pc = "expand"
    /\ \E f \in TopLevelForests(CommentsLeft) :
          /\ submissions' = [submissions EXCEPT ![Cur].comments = [fetched |-> TRUE, forest |-> f]]
          /\ posts' = AppendRecord(posts,
                 WithKey(post_data, "comments", FirstComments(f, req.comment_limit)))
    /\ pc' = "iter"
    /\ UNCHANGED <<fn, retryVars, chatVars, upstream, files, req, post_data, ci, result>>

\* mutant: every comment row is tagged with the id of the first post
AllComments_TaggedWithFirst(ps) ==
    LET RECURSIVE rows(_)
        rows(i) ==
            IF i > Len(ps) THEN <<>>
            ELSE [k \in DOMAIN ps[i]["comments"] |->
                     WithKey(ps[i]["comments"][k], "post_id", ps[1]["id"])] \o rows(i + 1)
    IN  rows(1)

\* the comment rows of the split output: every comment of every post, with post_id
AllComments(ps) ==
    LET RECURSIVE rows(_)
        rows(i) ==
            IF i > Len(ps) THEN <<>>
            ELSE [k \in DOMAIN ps[i]["comments"] |->
                     WithKey(ps[i]["comments"][k], "post_id", ps[i]["id"])] \o rows(i + 1)
    IN  rows(1)

\* pd.DataFrame(list of dicts): one row per dict
DataFrame(rows) == [kind |-> "dataframe", rows |-> rows]

\* the `else:  # dataframe` branch when comments are wanted
SplitFrames(ps) ==
    IF ps = <<>> THEN [kind |-> "error", val |-> [type |-> "KeyError", key |-> "comments"]]
    ELSE IF \E i \in DOMAIN ps : "id" \notin DOMAIN ps[i]
      THEN [kind |-> "error", val |-> [type |-> "KeyError", key |-> "id"]]
    ELSE LET without == [i \in DOMAIN ps |-> WithoutKey(ps[i], "comments")]
             all_comments == AllComments(ps)
         IN  IF all_comments # <<>>
               THEN [kind |-> "value",
                     val |-> [kind |-> "split", posts |-> DataFrame(without),
                              comments |-> DataFrame(all_comments)]]
               ELSE [kind |-> "value", val |-> DataFrame(without)]

\* "Convert to requested return format"
Shaped(ps, r, return_type) ==
    CASE return_type = "dict" -> [kind |-> "value", val |-> [kind |-> "list", rows |-> ps]]
      [] return_type = "json" -> [kind |-> "value", val |-> [kind |-> "json", rows |-> ps]]
      [] OTHER -> IF CommentsOn(r) THEN SplitFrames(ps)
                  ELSE [kind |-> "value", val |-> DataFrame(ps)]

\* str.replace(old, new): every occurrence of old, found from left to right
RECURSIVE Replace(_, _, _)
Replace(str, old, new) ==
    IF Len(str) < Len(old) THEN str
    ELSE IF SubSeq(str, 1, Len(old)) = old
      THEN new \o Replace(SubSeq(str, Len(old) + 1, Len(str)), old, new)
    ELSE <<str[1]>> \o Replace(Tail(str), old, new)

\* '.csv' and '_comments.csv'
CsvSuffix == <<".", "c", "s", "v">>
CommentsCsvSuffix == <<"_", "c", "o", "m", "m", "e", "n", "t", "s", ".", "c", "s", "v">>

\* `comment_file = output_file.replace('.csv', '_comments.csv')`
CommentFile(output_file) == Replace(output_file, CsvSuffix, CommentsCsvSuffix)

\* "Save to CSV if output_file is specified": the to_csv calls, in order
SavedCsv(val, output_file, return_type) ==
    IF output_file # <<>> /\ return_type = "dataframe"
      THEN IF val.kind = "split"
             THEN <<[path |-> output_file, table |-> val.posts],
                    [path |-> CommentFile(output_file), table |-> val.comments]>>
             ELSE <<[path |-> output_file, table |-> val]>>
      ELSE <<>>

\* the listing is exhausted: the result is shaped as return_type asks, saved if a
\* file is asked for, and returned; or shaping raises
RedReturn(return_type) ==
    /\ fn = "scrape_reddit"
    /\ pc = "iter"
    /\ LET shaped == Shaped(posts, req, return_type) IN
         /\ result' = [kind |-> shaped.kind, val |-> shaped.val, return_type |-> return_type]
         /\ pc' = IF shaped.kind = "error" THEN "raised" ELSE "returned"
         /\ files' = IF shaped.kind = "error" THEN files
                     ELSE files \o SavedCsv(shaped.val, req.output_file, return_type)
    /\ UNCHANGED <<fn, retryVars, chatVars, upstream, req, submissions, post_data, ci, posts>>

\* the listing, or `post.comments.replace_more(limit=0)`, raises
RedFetchFails(t) == FetchFails("scrape_reddit", t)

InitReddit ==
    /\ fn = "scrape_reddit"
    /\ RetryIdle
    /\ req \in RedditRequests
    /\ pc = "iter"
    /\ submissions = <<>>
    /\ post_data = [id |-> 0]
    /\ ci = 0
    /\ posts = <<>>
    /\ result = [kind |-> "none", val |-> None]
    /\ upstream = DefaultCalls(req.limit)
    /\ files = <<>>
    /\ conversation_history = <<>>

NextReddit ==
    \/ \E post \in Submissions(Len(submissions) + 1) : RedNextSubmission(post)
    \/ RedComments
    \/ \E return_type \in ReturnTypes : RedReturn(return_type)
    \/ \E t \in FetchErrors : RedFetchFails(t)

SpecReddit == InitReddit /\ [][NextReddit]_vars

(***************************************************************************)
(* scrape_reddit and scrape_detailed_posts from their first statement:     *)
(* the default fields, the choice of the listing, then the loop            *)
(***************************************************************************)

\* the argument include_fields as passed: None, or a list
NoFields == [is_none |-> TRUE, list |-> <<>>]
GivenFields(list) == [is_none |-> FALSE, list |-> list]
\* the values of the argument explored: None, the empty list and a selection
FieldArgs == {NoFields, GivenFields(<<>>), GivenFields(<<"id", "author", "permalink">>)}

\* the paths explored for output_file: o.csv, o, o.txt and d.csv/o.csv
OutputFiles ==
    {<<"o", ".", "c", "s", "v">>,
     <<"o">>,
     <<"o", ".", "t", "x", "t">>,
     <<"d", ".", "c", "s", "v", "/", "o", ".", "c", "s", "v">>}

\* scrape_reddit called with every argument left at its default
EntryDefaults ==
    [limit |-> DefaultLimit, sort_by |-> DefaultSortBy, time_filter |-> DefaultTimeFilter,
     search_query |-> None, include_comments |-> FALSE, comment_limit |-> 0,
     min_score |-> 0, exclude_nsfw |-> TRUE, passed_fields |-> NoFields,
     include_fields |-> NoFields.list, output_file |-> NoOutputFile]

\* The calls explored: the arguments that choose the listing in full, and apart from
\* them the values of include_fields, and the output files with and without comments.
\* passed_fields keeps the argument include_fields as it was passed; include_fields
\* is the local variable, which line 61 may rebind.
EntryRequests ==
    {[EntryDefaults EXCEPT !.sort_by = s, !.time_filter = t, !.search_query = q] :
        s \in SortValues, t \in TimeFilters, q \in SearchQueries}
    \cup {[EntryDefaults EXCEPT !.passed_fields = a, !.include_fields = a.list] :
             a \in FieldArgs}
    \cup {[EntryDefaults EXCEPT !.output_file = o, !.include_comments = c,
                                !.comment_limit = IF c THEN 1 ELSE 0] :
             o \in OutputFiles, c \in BOOLEAN}

\* the calls of scrape_detailed_posts explored
DetailedEntryRequests ==
    [limit : {DefaultDetailedLimit}, sort_by : SortValues, time_filter : TimeFilters,
     search_query : SearchQueries, comment_depth : {DefaultCommentDepth}]

\* `if include_fields is None: include_fields = [...]`
DefaultedFields(passed) == IF passed.is_none THEN DefaultFields ELSE passed.list

\* "Default fields to include if none specified"
RedDefaultFields ==
    /\ fn = "scrape_reddit"
    /\ pc = "entry"
    /\ req' = [req EXCEPT !.include_fields = DefaultedFields(req.passed_fields)]
    /\ pc' = "dispatch"
    /\ UNCHANGED <<fn, retryVars, chatVars, upstream, files, submissions, post_data, ci, posts, result>>

\* "Get submissions based on sort and search criteria" in scrape_reddit
RedDispatch == DispatchStep("scrape_reddit")

InitEntry ==
    /\ RetryIdle
    /\ \/ fn = "scrape_reddit" /\ pc = "entry" /\ req \in EntryRequests
       \/ fn = "scrape_detailed_posts" /\ pc = "dispatch" /\ req \in DetailedEntryRequests
    /\ submissions = <<>>
    /\ post_data = [id |-> 0]
    /\ ci = 0
    /\ posts = <<>>
    /\ result = [kind |-> "none", val |-> None]
    /\ upstream = <<>>
    /\ files = <<>>
    /\ conversation_history = <<>>

\* scrape_reddit in full; of scrape_detailed_posts the choice of the listing, whose
\* loop is what SpecDetailed explores
NextEntry ==
    \/ RedDefaultFields
    \/ RedDispatch
    \/ DetDispatch
    \/ NextReddit

SpecEntry == InitEntry /\ [][NextEntry]_vars

(***************************************************************************)
(* scrape_twitter(query, limit=100, ..., min_likes=0, min_retweets=0, ...,  *)
(*                return_type='dataframe')                                 *)
(***************************************************************************)

\* engagement numbers an upstream tweet may have: below and at the thresholds explored
Likes == {5, 10}
Retweets == {1, 2}
MinLikes == {0, 10}
MinRetweets == {0, 2}

\* the languages a tweet may be in, and the values of the argument language explored
Languages == {"en", "de"}
RequestedLanguages == {None, "en"}

\* the arguments explored: a language is requested with the other arguments at
\* their defaults
TwitterRequests ==
    {r \in [limit : {1, DefaultLimit}, min_likes : MinLikes, min_retweets : MinRetweets,
            language : RequestedLanguages] :
        r.language # None => (r.limit = DefaultLimit /\ r.min_likes = 0 /\ r.min_retweets = 0)}

\* the tweets explored: in the first language with every engagement, in another
\* language with the engagement that passes every threshold
Tweets ==
    {t \in [likes : Likes, retweets : Retweets, language : Languages] :
        t.language # "en" => (t.likes = 10 /\ t.retweets = 2)}

\* what scraper.get_tweets may return: a dict whose "tweets" lists up to MaxPosts tweets
GetTweetsResults ==
    UNION {{[tweets |-> [i \in 1 .. n |-> [tweet_id |-> i, likes |-> g[i].likes,
                                            retweets |-> g[i].retweets,
                                            language |-> g[i].language]]] :
               g \in [1 .. n -> Tweets]} :
             n \in 0 .. MaxPosts}

\* `if likes < min_likes or retweets < min_retweets: continue`
TweetSkipped(tweet, r) ==
    \/ tweet.likes < r.min_likes
    \/ tweet.retweets < r.min_retweets

\* the dict built for a tweet that is kept
TweetData(tweet) ==
    [id |-> tweet.tweet_id, like_count |-> tweet.likes, retweet_count |-> tweet.retweets,
     language |-> tweet.language,
     url |-> <<"https://twitter.com/", "/status/", tweet.tweet_id>>]

\* the three forms of a result, by return_type
AsReturnType(rows, return_type) ==
    CASE return_type = "dict" -> [kind |-> "list", rows |-> rows]
      [] return_type = "json" -> [kind |-> "json", rows |-> rows]
      [] OTHER -> DataFrame(rows)

\* retry_operation(lambda: scraper.get_tweets(query, number=limit)) has returned:
\* `raw_tweets = result.get("tweets", [])`
TwFetched ==
    /\ fn = "scrape_twitter"
    /\ pc = "fetch"
    /\ rpc = "returned"
    /\ submissions' = ret.val.tweets
    /\ ci' = 1
    /\ pc' = "filter"
    /\ UNCHANGED <<fn, retryVars, chatVars, upstream, files, req, post_data, posts, result>>

\* retry_operation has raised: `except Exception as e`, print, and an empty result
\* of the requested form is returned
TwFetchFailed(return_type) ==
    /\ fn = "scrape_twitter"
    /\ pc = "fetch"
    /\ rpc = "raised"
    /\ result' = [kind |-> "value", val |-> AsReturnType(<<>>, return_type),
                  return_type |-> return_type]
    /\ pc' = "returned"
    /\ UNCHANGED <<fn, retryVars, chatVars, upstream, files, req, submissions, post_data, ci, posts>>

\* one iteration of `for tweet in raw_tweets`
TwTweet ==
    /\ fn = "scrape_twitter"
    /\ pc = "filter"
    /\ ci <= Len(submissions)
    /\ posts' = IF TweetSkipped(submissions[ci], req) THEN posts
                ELSE AppendRecord(posts, TweetData(submissions[ci]))
    /\ ci' = ci + 1
    /\ UNCHANGED <<fn, retryVars, chatVars, upstream, files, req, submissions, post_data, pc, result>>

\* after the loop: the tweets in the form return_type asks for
TwReturn(return_type) ==
    /\ fn = "scrape_twitter"
    /\ pc = "filter"
    /\ ci > Len(submissions)
    /\ result' = [kind |-> "value", val |-> AsReturnType(posts, return_type),
                  return_type |-> return_type]
    /\ pc' = "returned"
    /\ UNCHANGED <<fn, retryVars, chatVars, upstream, files, req, submissions, post_data, ci, posts>>

InitTwitter ==
    /\ fn = "scrape_twitter"
    /\ max_retries = DefaultMaxRetries
    /\ attempt = 0
    /\ rpc = "for"
    /\ events = <<>>
    /\ ret = [kind |-> "none", val |-> None]
    /\ req \in TwitterRequests
    /\ pc = "fetch"
    /\ submissions = <<>>
    /\ post_data = [id |-> 0]
    /\ ci = 0
    /\ posts = <<>>
    /\ result = [kind |-> "none", val |-> None]
    /\ upstream = <<>>
    /\ files = <<>>
    /\ conversation_history = <<>>

NextTwitter ==
    \/ RetryFor
    \/ \E v \in GetTweetsResults : OperationReturns(v)
    \/ \E t \in ErrorTypes : OperationRaises(t)
    \/ RetrySleep
    \/ TwFetched
    \/ \E return_type \in ReturnTypes : TwFetchFailed(return_type)
    \/ TwTweet
    \/ \E return_type \in ReturnTypes : TwReturn(return_type)

(***************************************************************************)
(* The collectors together                                                 *)
(***************************************************************************)

\* scrape_detailed_posts is here called with its default comment_depth; SpecDetailed
\* explores the others
Init ==
    \/ InitReddit
    \/ InitDetailed /\ req.comment_depth = DefaultCommentDepth
    \/ InitTwitter

\* every action is guarded by fn or, for retry_operation, by rpc
Next == NextReddit \/ NextDetailed \/ NextTwitter

Spec == Init /\ [][Next]_vars

\* the item records of the returned result, whatever its shape
ResultItems == IF result.val.kind = "split" THEN result.val.posts.rows ELSE result.val.rows
\* the comment rows of a split result
ResultCommentRows == IF result.val.kind = "split" THEN result.val.comments.rows ELSE <<>>

\* the upstream item a returned record was made from: its id, or the id its title carries
SourceId(row) == IF "id" \in DOMAIN row THEN row["id"] ELSE row["title"][2]
ResultIds == [k \in DOMAIN ResultItems |-> SourceId(ResultItems[k])]

\* the sentinel rule: v is the upstream author's name, or '[deleted]' when the upstream
\* has no author; never None
SentinelRule(v, a) ==
    /\ v # None
    /\ IF a.present THEN v = a.name ELSE v = "[deleted]"

RECURSIVE TreeAuthorsBySentinelRule(_, _)
TreeAuthorsBySentinelRule(cs, f) ==
    \A k \in DOMAIN cs :
        /\ SentinelRule(cs[k].author, f[cs[k].id].author)
        /\ TreeAuthorsBySentinelRule(cs[k].replies, f)

\* C7 as claimed: every record returned by scrape_reddit and scrape_detailed_posts,
\* for every field selection, has an author attribute, and it is not None.
C7_AuthorAlwaysPresent ==
    (fn \in {"scrape_reddit", "scrape_detailed_posts"} /\ Returned) =>
        \A k \in DOMAIN ResultItems :
            /\ "author" \in DOMAIN ResultItems[k]
            /\ ResultItems[k]["author"] # None

\* C7 (amended): every record returned by scrape_detailed_posts has an author; a
\* record returned by scrape_reddit has one exactly when 'author' is among the
\* projected fields; every comment node and comment entry has one. Wherever the
\* attribute is carried it follows the sentinel rule and is never None.
C7_AuthorBySentinelRuleWhereCarried ==
    /\ (fn = "scrape_detailed_posts" /\ Returned) =>
          \A k \in DOMAIN ResultItems :
              LET row == ResultItems[k]
                  up == submissions[row.id]
              IN  /\ "author" \in DOMAIN row
                  /\ SentinelRule(row.author, up.author)
                  /\ TreeAuthorsBySentinelRule(row.comments, up.comments.forest)
    /\ (fn = "scrape_reddit" /\ Returned) =>
          /\ \A k \in DOMAIN ResultItems :
                LET row == ResultItems[k]
                    up == submissions[SourceId(row)]
                IN  /\ "author" \in DOMAIN row <=>
                          \E j \in DOMAIN req.include_fields : req.include_fields[j] = "author"
                    /\ "author" \in DOMAIN row => SentinelRule(row["author"], up.author)
                    /\ "comments" \in DOMAIN row =>
                          \A c \in DOMAIN row["comments"] :
                              SentinelRule(row["comments"][c].author,
                                           up.comments.forest[row["comments"][c].id].author)
          /\ \A c \in DOMAIN ResultCommentRows :
                LET crow == ResultCommentRows[c] IN
                    SentinelRule(crow["author"],
                                 submissions[crow["post_id"]].comments.forest[crow["id"]].author)

\* C7 witness: scrape_reddit has returned, as a list, a post whose upstream author is
\* gone, with the sentinel as its author, and on it a comment whose author is gone
C7_Witness ==
    /\ fn = "scrape_reddit"
    /\ Returned
    /\ result.val.kind = "list"
    /\ \E k \in DOMAIN ResultItems :
          /\ "author" \in DOMAIN ResultItems[k]
          /\ ~submissions[SourceId(ResultItems[k])].author.present
          /\ ResultItems[k]["author"] = "[deleted]"
          /\ "comments" \in DOMAIN ResultItems[k]
          /\ \E c \in DOMAIN ResultItems[k]["comments"] :
                ResultItems[k]["comments"][c].author = "[deleted]"

\* the upstream items that pass every requested predicate
PassingSubmissions ==
    {i \in DOMAIN submissions :
        /\ ~(req.exclude_nsfw /\ submissions[i].over_18)
        /\ submissions[i].score >= req.min_score}
PassingTweets ==
    {i \in DOMAIN submissions :
        /\ submissions[i].likes >= req.min_likes
        /\ submissions[i].retweets >= req.min_retweets}

\* C8: an upstream item is in the result if and only if it passes every requested
\* predicate, once each, in every output shape; a comment row of the split output
\* belongs to an item that passes.
C8_ResultIsWhatPassesTheFilter ==
    /\ (fn = "scrape_reddit" /\ Returned) =>
          /\ {ResultIds[k] : k \in DOMAIN ResultIds} = PassingSubmissions
          /\ Len(ResultItems) = Cardinality(PassingSubmissions)
          /\ \A c \in DOMAIN ResultCommentRows :
                ResultCommentRows[c]["post_id"] \in PassingSubmissions
    /\ (fn = "scrape_twitter" /\ Returned) =>
          /\ {ResultIds[k] : k \in DOMAIN ResultIds} = PassingTweets
          /\ Len(ResultItems) = Cardinality(PassingTweets)

\* C8 witness: min_score = 10 against scores 5 and 10 in that order: the result holds
\* the second submission only
C8_Witness ==
    /\ fn = "scrape_reddit"
    /\ Returned
    /\ req.min_score = 10
    /\ Len(submissions) = 2
    /\ submissions[1].score = 5 /\ ~submissions[1].over_18
    /\ submissions[2].score = 10
    /\ ResultIds = <<2>>

\* C8 witness for scrape_twitter is the same case with likes 5 and 10, min_likes 10
C8_WitnessTwitter ==
    /\ fn = "scrape_twitter"
    /\ Returned
    /\ req.min_likes = 10
    /\ Len(submissions) = 2
    /\ submissions[1].likes = 5
    /\ submissions[2].likes = 10
    /\ ResultIds = <<2>>

\* a sequence of numbers that only goes up
Increasing(seq) == \A i, j \in DOMAIN seq : i < j => seq[i] < seq[j]

\* C9: the items of the result are in the order the upstream yielded them (ids are
\* given in upstream order, so the ids of the result only go up), whatever their
\* scores; the comment rows of the split output come post by post in the order of
\* the posts, each post's comments in their upstream order.
C9_UpstreamOrderKept ==
    Returned =>
        /\ Increasing(ResultIds)
        /\ \A i, j \in DOMAIN ResultCommentRows :
              i < j =>
                \/ ResultCommentRows[i]["post_id"] < ResultCommentRows[j]["post_id"]
                \/ /\ ResultCommentRows[i]["post_id"] = ResultCommentRows[j]["post_id"]
                   /\ ResultCommentRows[i]["id"][1] < ResultCommentRows[j]["id"][1]

\* C9 witness: a split result of two posts, the second with the higher score, each
\* with one comment: posts 1, 2 and comment rows of post 1, then of post 2
C9_Witness ==
    /\ fn = "scrape_reddit"
    /\ Returned
    /\ result.val.kind = "split"
    /\ ResultIds = <<1, 2>>
    /\ submissions[1].score < submissions[2].score
    /\ Len(ResultCommentRows) = 2
    /\ ResultCommentRows[1]["post_id"] = 1
    /\ ResultCommentRows[2]["post_id"] = 2

\* C10: the number of items in the result never exceeds the request's limit, whatever
\* number of items the upstream returns.
C10_ResultWithinLimit ==
    (fn \in {"scrape_reddit", "scrape_twitter"} /\ Returned) =>
        Len(ResultItems) <= req.limit

(***************************************************************************)
(* The choice of the listing (claims C11, C12)                             *)
(***************************************************************************)

\* the function is past "Get submissions based on sort and search criteria"
PastDispatch ==
    fn \in {"scrape_reddit", "scrape_detailed_posts"} /\ pc \notin {"entry", "dispatch"}

\* the calls made on the subreddit by that block
IsListingCall(c) == c.prim # "fetch"
ListingCalls == SelectSeq(upstream, IsListingCall)

\* C11: for every request whose sort_by is not one of new, hot, top, rising,
\* controversial, with or without a search query, scrape_reddit and
\* scrape_detailed_posts fail with the invalid-sort error, and no call has been made
\* on the upstream before they do.
C11_InvalidSortFailsBeforeAnyQuery ==
    (PastDispatch /\ req.sort_by \notin SortStrategies) =>
        /\ pc = "raised"
        /\ result.val.type = "ValueError"
        /\ upstream = <<>>

\* C12: the call made on the upstream is determined by search_query and sort_by: with
\* a non-empty search_query the search primitive is called with the query, the sort
\* and the time filter and no listing is; otherwise exactly the listing named by
\* sort_by is called, with the time filter if and only if sort_by is top or
\* controversial, and for new, hot and rising no time filter value is an error.
C12_DispatchBySearchQueryAndSort ==
    PastDispatch =>
        IF QueryGiven(req.search_query)
          THEN ListingCalls = <<[prim |-> "search", query |-> req.search_query,
                                 sort |-> req.sort_by, time_filter |-> req.time_filter,
                                 limit |-> req.limit]>>
        ELSE IF req.sort_by \in SortStrategies
          THEN /\ Len(ListingCalls) = 1
               /\ ListingCalls[1].prim = req.sort_by
               /\ ListingCalls[1].query = NotPassed
               /\ ListingCalls[1].sort = NotPassed
               /\ ListingCalls[1].limit = req.limit
               /\ ListingCalls[1].time_filter =
                      IF req.sort_by \in {"top", "controversial"}
                        THEN req.time_filter ELSE NotPassed
               /\ ~(pc = "raised" /\ result.val.type = "ValueError")
        ELSE ListingCalls = <<>>

\* C12 witness: scrape_reddit has returned after sort_by = 'rising' with
\* time_filter = 'week' and an empty search_query: the one call made is rising,
\* without a time filter
C12_Witness ==
    /\ fn = "scrape_reddit"
    /\ pc = "returned"
    /\ req.sort_by = "rising"
    /\ req.time_filter = "week"
    /\ req.search_query = ""
    /\ upstream = <<ListingCall("rising", NotPassed, DefaultLimit)>>

\* C12 witness for the search: scrape_detailed_posts with a query and sort_by = 'top'
C12_WitnessSearch ==
    /\ fn = "scrape_detailed_posts"
    /\ pc = "iter"
    /\ req.sort_by = "top"
    /\ req.search_query = "gme"
    /\ upstream = <<SearchCall("gme", "top", req.time_filter, DefaultDetailedLimit)>>

(***************************************************************************)
(* Projection, permalinks and default fields (claims C13, C14, C15)        *)
(***************************************************************************)

\* C13: every record scrape_reddit returns has a key for every requested field, in
\* every output shape; a requested field the submission does not have is None; and
\* no run ends in the AttributeError of an unknown field.
C13_UnknownFieldIsNull ==
    fn = "scrape_reddit" =>
        /\ Returned =>
              \A k \in DOMAIN ResultItems : \A j \in DOMAIN req.include_fields :
                  LET field == req.include_fields[j] IN
                      /\ field \in DOMAIN ResultItems[k]
                      /\ (field # "author" /\ ~HasAttr(field)) => ResultItems[k][field] = None
        /\ pc = "raised" => result.val.type # "AttributeError"

\* C13 witness: include_fields = ['title', 'flair'] has returned a record with its
\* title and with flair, which no submission has, set to None
C13_Witness ==
    /\ fn = "scrape_reddit"
    /\ Returned
    /\ req.include_fields = <<"title", "flair">>
    /\ Len(ResultItems) >= 1
    /\ DOMAIN ResultItems[1] = {"title", "flair"}
    /\ ResultItems[1]["flair"] = None
    /\ ResultItems[1]["title"] = <<"title", 1>>

\* a URL with scheme and host in front, as against a path such as /r/sub/comments/...
IsAbsoluteUrl(url) == Len(url) >= 1 /\ url[1] = "https://www.reddit.com"

RECURSIVE TreePermalinksAbsolute(_)
TreePermalinksAbsolute(cs) ==
    \A k \in DOMAIN cs :
        /\ IsAbsoluteUrl(cs[k].permalink)
        /\ TreePermalinksAbsolute(cs[k].replies)

\* C14: every record and every comment node that carries a permalink, returned by
\* scrape_reddit (when 'permalink' is requested) or by scrape_detailed_posts, carries
\* an absolute URL, the upstream permalink being a relative path.
C14_PermalinkIsAbsolute ==
    (fn \in {"scrape_reddit", "scrape_detailed_posts"} /\ Returned) =>
        \A k \in DOMAIN ResultItems :
            /\ "permalink" \in DOMAIN ResultItems[k] =>
                  IsAbsoluteUrl(ResultItems[k]["permalink"])
            /\ fn = "scrape_detailed_posts" =>
                  TreePermalinksAbsolute(ResultItems[k].comments)

\* C15: when the caller's field selection is empty, None or an empty list, every
\* record scrape_reddit returns carries the default fields id, title, score, url,
\* author, created_utc, num_comments and selftext.
C15_EmptySelectionGivesDefaults ==
    (fn = "scrape_reddit" /\ Returned
        /\ (req.passed_fields.is_none \/ req.passed_fields.list = <<>>)) =>
        \A k \in DOMAIN ResultItems :
            \A j \in DOMAIN DefaultFields : DefaultFields[j] \in DOMAIN ResultItems[k]

(***************************************************************************)
(* The split output and its files (claims C16, C17, C18)                   *)
(***************************************************************************)

\* the comment rows of a split result that are tagged with the post id `id`
RowsOf(id) == SelectSeq(ResultCommentRows, LAMBDA row : row["post_id"] = id)

\* the number of comments scrape_reddit collects for the submission `id`
NumCollected(id) ==
    LET top == Len(Replies(submissions[id].comments.forest, <<>>))
    IN  IF top < req.comment_limit THEN top ELSE req.comment_limit

\* C16: in a split result every comment row carries the id of a post of the posts
\* table, and the rows tagged with a post's id are exactly the comments collected
\* under that post: as many as were collected, each with the id and the author of
\* that post's upstream comment.
C16_CommentRowsTaggedWithOwnPost ==
    (fn = "scrape_reddit" /\ Returned /\ result.val.kind = "split") =>
        /\ \A c \in DOMAIN ResultCommentRows :
              \E k \in DOMAIN ResultItems :
                  ResultItems[k]["id"] = ResultCommentRows[c]["post_id"]
        /\ \A k \in DOMAIN ResultItems :
              LET id == ResultItems[k]["id"]
                  rows == RowsOf(id)
                  f == submissions[id].comments.forest
              IN  /\ Len(rows) = NumCollected(id)
                  /\ \A j \in DOMAIN rows :
                        /\ rows[j]["id"] = <<j>>
                        /\ rows[j]["author"] = AuthorName(f[<<j>>].author)

\* C16 witness: two posts, the first with two comments by different authors and the
\* second with none: two comment rows, both tagged with the first post's id
C16_Witness ==
    /\ fn = "scrape_reddit"
    /\ Returned
    /\ result.val.kind = "split"
    /\ ResultIds = <<1, 2>>
    /\ NumCollected(1) = 2
    /\ NumCollected(2) = 0
    /\ Len(ResultCommentRows) = 2
    /\ ResultCommentRows[1]["post_id"] = 1
    /\ ResultCommentRows[2]["post_id"] = 1
    /\ ResultCommentRows[1]["author"] # ResultCommentRows[2]["author"]

\* C17: for every request with comments enabled and return_type 'dataframe', whatever
\* number of comments was collected, the result is the pair of a posts table and a
\* comments table.
C17_SplitShapeWheneverAsked ==
    (fn = "scrape_reddit" /\ Returned /\ CommentsOn(req) /\ result.return_type = "dataframe") =>
        result.val.kind = "split"

\* C18: when a split result is saved, the comments table goes to a file whose path
\* is not the path of the posts file, so writing it does not overwrite the posts.
C18_CommentFileIsNotThePostsFile ==
    (fn = "scrape_reddit" /\ Returned /\ result.val.kind = "split"
        /\ req.output_file # NoOutputFile) =>
        /\ Len(files) = 2
        /\ files[1].path = req.output_file
        /\ files[1].table = result.val.posts
        /\ files[2].table = result.val.comments
        /\ files[2].path # files[1].path

(***************************************************************************)
(* Failures of the upstream (claims C19, C20)                              *)
(***************************************************************************)

\* C19: a run of scrape_twitter whose fetch has failed after all retry attempts
\* raises, or returns something other than what a run with zero matching tweets
\* returns.
C19_FetchFailureIsSignalled ==
    (fn = "scrape_twitter" /\ rpc = "raised" /\ pc \in {"returned", "raised"}) =>
        \/ pc = "raised"
        \/ result.val # AsReturnType(<<>>, result.return_type)

\* the attempts of a fetch that failed: those made directly on the upstream and
\* those made as the operation of retry_operation
FailedFetches ==
    Cardinality({i \in DOMAIN upstream : upstream[i].prim = "fetch" /\ ~upstream[i].ok})
        + Cardinality({e \in CallEvents : ~events[e].ok})

\* C20: every upstream fetch of both sources goes through retry_operation: an error
\* of a fetch reaches the caller of scrape_reddit or scrape_detailed_posts, or makes
\* scrape_twitter give up, only after max_retries (default 3) attempts of that fetch
\* have failed.
C20_FetchErrorOnlyAfterMaxAttempts ==
    /\ (fn \in {"scrape_reddit", "scrape_detailed_posts"} /\ pc = "raised"
           /\ result.val.type \in FetchErrors) =>
          FailedFetches = DefaultMaxRetries
    /\ (fn = "scrape_twitter" /\ pc = "returned" /\ rpc = "raised") =>
          FailedFetches = DefaultMaxRetries

(***************************************************************************)
(* retry_operation and errors that are not transient (claim C21)           *)
(***************************************************************************)

\* the exception classes that are not transient
NonTransientErrors == {"SubjectNotFound"}

\* C21: when the operation fails with a non-transient error, retry_operation has
\* made exactly one attempt and surfaces that error: the failed call is the only
\* event, no sleep and no further call follows it, and the error is raised.
C21_NonTransientNotRetried ==
    fn = "retry_operation" =>
        \A e \in CallEvents :
            (~events[e].ok /\ events[e].out.type \in NonTransientErrors) =>
                /\ e = Len(events)
                /\ NumSleeps = 0
                /\ rpc = "raised"
                /\ ret = [kind |-> "error", val |-> events[e].out]

(***************************************************************************)
(* The language of the tweets (claim C22)                                  *)
(***************************************************************************)

\* C22: when a language is requested, every tweet in the result of scrape_twitter
\* has that language, whatever get_tweets returned.
C22_ResultHasRequestedLanguage ==
    (fn = "scrape_twitter" /\ Returned /\ req.language # None) =>
        \A k \in DOMAIN ResultItems : ResultItems[k].language = req.language

(***************************************************************************)
(* C23: without comments nothing of a post's comments is touched           *)
(***************************************************************************)

RECURSIVE Levels(_)
Levels(cs) ==
    IF cs = <<>> THEN 0
    ELSE LET below == {Levels(cs[k].replies) : k \in DOMAIN cs}
         IN  1 + CHOOSE m \in below : \A n \in below : n <= m

\* C24 as stated: with comment_depth = k >= 1, counting top-level comments as
\* level 1, every returned comment tree has at most k levels.
C24_AtMostDepthLevels ==
    (fn = "scrape_detailed_posts" /\ Returned /\ req.comment_depth >= 1) =>
        \A i \in DOMAIN result.val.rows :
            Levels(result.val.rows[i].comments) <= req.comment_depth

\* C24 amended: with comment_depth = k >= 0 the top-level comments and k levels of
\* replies below them are retrieved: counting top-level comments as level 1, every
\* returned comment tree has at most k + 1 levels.
C24_AtMostDepthPlusOneLevels ==
    (fn = "scrape_detailed_posts" /\ Returned /\ req.comment_depth >= 0) =>
        \A i \in DOMAIN result.val.rows :
            Levels(result.val.rows[i].comments) <= req.comment_depth + 1

\* comment_depth = 1 on an upstream chain of three nested comments: the returned
\* tree has two levels, the top-level comment and its reply
C24_Witness ==
    /\ fn = "scrape_detailed_posts"
    /\ Returned
    /\ req.comment_depth = 1
    /\ \E i \in DOMAIN result.val.rows :
          /\ <<1, 1, 1>> \in DOMAIN submissions[i].comments.forest
          /\ Levels(result.val.rows[i].comments) = 2

(***************************************************************************)
(* C25: the comments scrape_reddit returns for a post                      *)
(***************************************************************************)

\* cs is the list of the first comment_limit top-level comments of the submission
\* `id`, in upstream order: at most comment_limit entries, entry j made from the
\* j-th top-level comment, and so no reply among them
IsFirstTopLevel(cs, id) ==
    LET f == submissions[id].comments.forest IN
    /\ Len(cs) <= req.comment_limit
    /\ Len(cs) = NumCollected(id)
    /\ \A j \in DOMAIN cs :
          /\ cs[j]["id"] = <<j>>
          /\ cs[j]["author"] = AuthorName(f[<<j>>].author)
          /\ cs[j]["body"] = <<"body", j>>

\* C25 as stated: with include_comments true and comment_limit = k > 0, every
\* returned post carries a comments list, which is the list of the first k top-level
\* comments of that post in upstream order.
C25_EveryPostCarriesFirstComments ==
    (fn = "scrape_reddit" /\ Returned /\ req.include_comments /\ req.comment_limit > 0) =>
        \A k \in DOMAIN ResultItems :
            /\ "comments" \in DOMAIN ResultItems[k]
            /\ IsFirstTopLevel(ResultItems[k]["comments"], ResultIds[k])

\* C25 amended: with include_comments true and comment_limit = k > 0, the comments
\* returned for a post (in the dict and json shapes the comments list the post
\* carries, in the dataframe shape the rows of the comment table tagged with the
\* post's id) are at most k entries, the first k top-level comments of that post in
\* upstream order, and no reply.
C25_PostCommentsAreFirstTopLevel ==
    (fn = "scrape_reddit" /\ Returned /\ req.include_comments /\ req.comment_limit > 0) =>
        \A k \in DOMAIN ResultItems :
            IF result.return_type \in {"dict", "json"}
              THEN /\ "comments" \in DOMAIN ResultItems[k]
                   /\ IsFirstTopLevel(ResultItems[k]["comments"], ResultIds[k])
              ELSE /\ "comments" \notin DOMAIN ResultItems[k]
                   /\ IsFirstTopLevel(RowsOf(ResultIds[k]), ResultIds[k])

\* comment_limit = 1 and a post with two top-level comments, returned as a dict
\* with the first of them only
C25_Witness ==
    /\ fn = "scrape_reddit"
    /\ Returned
    /\ req.include_comments
    /\ req.comment_limit = 1
    /\ result.return_type = "dict"
    /\ \E k \in DOMAIN ResultItems :
          /\ <<2>> \in DOMAIN submissions[ResultIds[k]].comments.forest
          /\ Len(ResultItems[k]["comments"]) = 1

(***************************************************************************)
(* cloudrun/main.py: the /generate endpoint of the Flask service and the   *)
(* ChatSession client that posts to it. A string is the sequence of its    *)
(* characters.                                                             *)
(***************************************************************************)

\* DEFAULT_MODEL = SMALL_MODELS["MISTRAL_7B"]["id"]
DefaultModel == "DEFAULT_MODEL"

\* values of "model_id" in a request body: none given, empty, a model id
ModelIds == {None, "", "gpt2"}

\* values of "prompt" in a request body: empty, and a text
Prompts == {<<>>, <<"h", "i">>}

\* os.environ.get("HUGGINGFACE_API_KEY"): not set, set to the empty string, set
EnvKeys == {None, "", "hf_key"}

\* generate_hf_response(...): the generated text, or the exception it re-raises
HfOutcomes == {[ok |-> TRUE, text |-> <<"r">>], [ok |-> FALSE, text |-> <<"HTTPError">>]}

\* The calls of POST /generate explored: json says whether the body parses to a
\* dict (get_json(silent=True) gives None otherwise), has_prompt whether the dict
\* has the key "prompt"; environ_key and hf are the environment of the call.
GenerateRequests ==
    {r \in [json : BOOLEAN, has_prompt : BOOLEAN, prompt : Prompts, model_id : ModelIds,
            environ_key : EnvKeys, hf : HfOutcomes] :
        /\ ~r.json => (~r.has_prompt /\ r.model_id = None)
        /\ ~r.has_prompt => r.prompt = <<>>}

\* the local names of generate() that are bound when the three logger.info calls at
\* the head of the try block run: api_key is assigned only after them, and being
\* assigned in the function it is a local name
LocalsBoundAtLogging == {"data", "prompt", "model_id", "max_tokens", "temperature"}

\* jsonify({...}), status
JsonResponse(status, body) == [status |-> status, body |-> body]

\* generate(): the response to one request
GenerateResponse(r) ==
    LET prompt == IF r.json /\ r.has_prompt THEN r.prompt ELSE <<>>
        model_id == IF r.json THEN r.model_id ELSE None
    IN  IF prompt = <<>>
          THEN JsonResponse(400, [error |-> <<"Missing 'prompt' in request">>])
        ELSE IF "api_key" \notin LocalsBoundAtLogging
          THEN JsonResponse(500, [error |-> <<"UnboundLocalError", "api_key">>])
        ELSE IF r.environ_key \in {None, ""}
          THEN JsonResponse(500, [error |-> <<"API key not configured">>])
        ELSE IF r.hf.ok
          THEN JsonResponse(200, [response |-> r.hf.text,
                                  model |-> IF model_id \in {None, ""} THEN DefaultModel
                                            ELSE model_id,
                                  timestamp |-> <<"isoformat">>])
        ELSE JsonResponse(500, [error |-> r.hf.text])

\* POST /generate is handled
Generate ==
    /\ fn = "generate"
    /\ pc = "request"
    /\ result' = [kind |-> "value", val |-> GenerateResponse(req)]
    /\ pc' = "responded"
    /\ UNCHANGED <<fn, retryVars, chatVars, upstream, files, req, submissions, post_data, ci, posts>>

\* most messages a conversation is followed for
MaxHistory == 4

\* the messages the user sends
Messages == {<<"a">>, <<"b">>}

\* what requests.post(f"{api_url}/generate") and raise_for_status() give: a JSON
\* body with a "response", one without, or an exception
ServerReplies ==
    {[ok |-> TRUE, has_response |-> TRUE, text |-> <<" ", "r", " ">>],
     [ok |-> TRUE, has_response |-> FALSE, text |-> <<>>],
     [ok |-> FALSE, has_response |-> FALSE, text |-> <<"HTTPError">>]}

\* str.strip(): leading and trailing blanks removed
RECURSIVE Strip(_)
Strip(s) ==
    IF s = <<>> THEN s
    ELSE IF Head(s) = " " THEN Strip(Tail(s))
    ELSE IF s[Len(s)] = " " THEN Strip(SubSeq(s, 1, Len(s) - 1))
    ELSE s

\* ChatSession.add_message(role, content)
add_message(history, role, content) == Append(history, [role |-> role, content |-> content])

\* ChatSession.format_prompt(): one line per message, "User: ..." or
\* "Assistant: ...", and the final marker "Assistant:"
format_prompt(history) ==
    [i \in 1 .. Len(history) + 1 |->
        IF i > Len(history) THEN <<"Assistant:">>
        ELSE IF history[i].role = "user" THEN <<"User: ">> \o history[i].content
        ELSE <<"Assistant: ">> \o history[i].content]

\* ChatSession.send_message(message): the user message is added and the prompt
\* formatted; then the reply is added and returned, or the error text is returned
send_message(message, reply) ==
    /\ fn = "send_message"
    /\ Len(conversation_history) + 2 <= MaxHistory
    /\ LET with_user == add_message(conversation_history, "user", message)
           prompt == format_prompt(with_user)
           assistant_response == Strip(IF reply.has_response THEN reply.text ELSE <<>>)
       IN  IF reply.ok
             THEN /\ conversation_history' = add_message(with_user, "assistant", assistant_response)
                  /\ result' = [kind |-> "value", val |-> assistant_response, prompt |-> prompt]
             ELSE /\ conversation_history' = with_user
                  /\ result' = [kind |-> "value",
                                val |-> <<"Sorry, I encountered an error: ">> \o reply.text,
                                prompt |-> prompt]
    /\ UNCHANGED <<fn, retryVars, upstream, files, req, pc, submissions, post_data, ci, posts>>

\* a request to /generate has arrived
InitGenerate ==
    /\ fn = "generate"
    /\ pc = "request"
    /\ req \in GenerateRequests

\* ChatSession(api_url): `self.conversation_history = []`
InitChatSession ==
    /\ fn = "send_message"
    /\ pc = "idle"
    /\ req = [api_url |-> "api_url"]

InitCloudRun ==
    /\ RetryIdle
    /\ InitGenerate \/ InitChatSession
    /\ submissions = <<>>
    /\ post_data = [id |-> 0]
    /\ ci = 0
    /\ posts = <<>>
    /\ result = [kind |-> "none", val |-> None]
    /\ upstream = <<>>
    /\ files = <<>>
    /\ conversation_history = <<>>

NextCloudRun ==
    \/ Generate
    \/ \E message \in Messages, reply \in ServerReplies : send_message(message, reply)

SpecCloudRun == InitCloudRun /\ [][NextCloudRun]_vars

\* C26: POST /generate with a non-empty prompt, the key configured and a successful
\* Hugging Face call answers 200 with the response, the model id and a timestamp; a
\* missing or empty prompt is answered 400; 500 is answered only when the key is not
\* configured or the upstream call fails.
C26_GenerateAnswers ==
    (fn = "generate" /\ pc = "responded") =>
        LET r == result.val
            PromptGiven == req.json /\ req.has_prompt /\ req.prompt # <<>>
            KeyConfigured == req.environ_key \notin {None, ""}
        IN
        /\ (PromptGiven /\ KeyConfigured /\ req.hf.ok) =>
              /\ r.status = 200
              /\ DOMAIN r.body = {"response", "model", "timestamp"}
              /\ r.body.response = req.hf.text
        /\ ~PromptGiven => r.status = 400
        /\ r.status = 500 => (~KeyConfigured \/ ~req.hf.ok)

\* C30: after any sequence of send_message calls, successful or failing,
\* conversation_history alternates user and assistant roles starting with user, has
\* even length between calls, and the prompt format_prompt built for the last call
\* has no two consecutive 'User:' turns.
C30_HistoryAlternates ==
    fn = "send_message" =>
        LET history == conversation_history
            TwoUserTurnsInARow(prompt) ==
                \E i \in 1 .. Len(prompt) - 1 :
                    prompt[i][1] = "User: " /\ prompt[i + 1][1] = "User: "
        IN
        /\ \A i \in DOMAIN history :
              history[i].role = IF i % 2 = 1 THEN "user" ELSE "assistant"
        /\ Len(history) % 2 = 0
        /\ result.kind = "value" => ~TwoUserTurnsInARow(result.prompt)

(***************************************************************************)
(* C27: expansion before traversal, one post at a time                     *)
(***************************************************************************)

\* the submissions before the current one are done with: expanded, traversed and
\* appended to the result list, in order
EarlierPostsComplete ==
    \A i \in 1 .. Cur - 1 :
        /\ submissions[i].comments.fetched
        /\ i <= Len(posts)
        /\ posts[i].id = submissions[i].id

\* C27: in scrape_detailed_posts the expansion of a post's collapsed comments is
\* requested before any comment of that post is visited, and once only (a forest
\* that has been fetched is never fetched again); posts are processed one at a time:
\* while a post is expanded or traversed every earlier post has been expanded,
\* traversed and appended, and no later post has been started.
C27_ExpansionBeforeTraversal ==
    /\ [](fn = "scrape_detailed_posts" =>
            /\ pc = "expand" =>
                  /\ ~submissions[Cur].comments.fetched
                  /\ post_data.comments = <<>>
                  /\ Len(posts) = Cur - 1
            /\ pc = "comments" =>
                  /\ submissions[Cur].comments.fetched
                  /\ Len(posts) = Cur - 1
            /\ Len(submissions) > 0 => EarlierPostsComplete)
    /\ [][fn = "scrape_detailed_posts" =>
            \A i \in DOMAIN submissions :
                submissions[i].comments.fetched =>
                    submissions'[i].comments = submissions[i].comments]_vars

\* the second post is under traversal, one of its comments visited, after the first
\* post, which has comments too, has been appended
C27_Witness ==
    /\ fn = "scrape_detailed_posts"
    /\ pc = "comments"
    /\ Cur = 2
    /\ ci = 2
    /\ Len(post_data.comments) = 1
    /\ Len(posts) = 1
    /\ Len(posts[1].comments) >= 1

(***************************************************************************)
(* C28: retry_operation with no attempt to make                            *)
(***************************************************************************)

\* C28: retry_operation called with max_retries <= 0 never invokes the operation,
\* never sleeps, raises no error, and returns None; a return with max_retries >= 1
\* comes from a successful invocation, whose value it is.
C28_NoAttemptsReturnsNone ==
    /\ (fn = "retry_operation" /\ max_retries >= 1 /\ rpc = "returned") =>
          /\ events # <<>>
          /\ LastEvent = [ev |-> "call", ok |-> TRUE, out |-> ret.val]
    /\ (fn = "retry_operation" /\ max_retries <= 0) =>
        /\ events = <<>>
        /\ rpc \notin {"try", "sleep", "raised"}
        /\ ret.kind # "error"
        /\ RetryDone => (rpc = "returned" /\ ret = [kind |-> "value", val |-> None])

\* retry_operation(operation, max_retries=0) has returned None without a call
C28_Witness ==
    /\ fn = "retry_operation"
    /\ max_retries = 0
    /\ rpc = "returned"
    /\ ret = [kind |-> "value", val |-> None]
    /\ NumCalls = 0

(***************************************************************************)
(* C29: shaping the result of scrape_reddit                                *)
(***************************************************************************)

\* C29: once the upstream retrieval has succeeded, scrape_reddit returns a result
\* without raising, for every return_type, include_comments/comment_limit,
\* include_fields and filter outcome: the only error a run ends with is that of a
\* fetch, which the upstream log records.
C29_ShapingIsTotal ==
    (fn = "scrape_reddit" /\ pc = "raised") =>
        /\ result.val.type \in FetchErrors
        /\ \E i \in DOMAIN upstream : upstream[i].prim = "fetch" /\ ~upstream[i].ok

====
